---------------------------- MODULE Spec2Model ----------------------------
(***************************************************************************)
(* A model of the swf-headers crate: the bit-range extractor               *)
(* (src/src/bit_range.rs), the decoded stream (src/src/decoded_swf.rs),    *)
(* the error conversions (src/src/error.rs) and the header parser          *)
(* SwfHeaders::read_from with parse_rect (src/src/lib.rs).                 *)
(*                                                                         *)
(* Three specifications share the variables:                               *)
(*   SpecBits  one call of get_bit_range on a drawn buffer and range;      *)
(*   SpecRect  one call of parse_rect on a drawn stream;                   *)
(*   Spec      one run of read_from on a drawn file, followed by the       *)
(*             caller's reads on the returned stream.                      *)
(***************************************************************************)
EXTENDS Integers, Sequences, FiniteSets, TLC

VARIABLES
    bytes,            \* get_bit_range: the Vec<u8> it is called on
    range_start,      \* get_bit_range: range.start
    range_end,        \* get_bit_range: range.end
    bit_out,          \* get_bit_range: how the call ended
    rect_out,         \* parse_rect alone: how the call ended
    file,             \* the raw bytes of the file up to the end of byte 7
    body,             \* the bytes the selected decoder yields after byte 7
    endKind,          \* what a read past the last byte yields
    lzmaSetup,        \* what lzma::Reader::from yields for this file
    pc,               \* read_from: the step it is at
    pos,              \* bytes read_from has read from the raw file itself
    dpos,             \* bytes read through the DecodedSwf
    inner,            \* DecodedSwf._inner: the strategy, "None" before it exists
    constructed,      \* how many times DecodedSwf::decompress has run
    sig,              \* read_from: let sig
    version,          \* read_from: let version
    file_length,      \* read_from: let file_length
    width,            \* read_from: let (width, _)
    height,           \* read_from: let (_, height)
    frame_rate_lower, \* read_from: let frame_rate_lower
    frame_rate_upper, \* read_from: let frame_rate_upper
    frame_count,      \* read_from: let frame_count
    result,           \* read_from: how it ended
    headers,          \* the SwfHeaders returned
    delivered         \* the bytes the caller has read from the returned stream

bitVars == <<bytes, range_start, range_end, bit_out>>
envVars == <<file, body, endKind, lzmaSetup>>
runVars == <<pc, pos, dpos, inner, constructed, sig, version, file_length,
             width, height, frame_rate_lower, frame_rate_upper, frame_count,
             result, headers, delivered>>
vars == <<bitVars, rect_out, envVars, runVars>>

(***************************************************************************)
(* Bounds of the model.                                                    *)
(***************************************************************************)
\* The longest buffer get_bit_range is called on in SpecBits.
MaxBufLen == 4
\* How far past the last bit of the longest buffer a drawn range may reach.
MaxOverrun == 9
\* The bytes of a file that follow the frame count.
MaxTrailing == 2
\* The longest buffer the caller hands to DecodedSwf::read.
MaxReadLen == 2

\* A value no u8, u16 or u32 takes: a local not yet assigned.
Unset == 0 - 1

(***************************************************************************)
(* src/src/bit_range.rs                                                    *)
(***************************************************************************)
Returned(v) == [kind |-> "value", value |-> v]
Aborted == [kind |-> "abort", value |-> 0]

\* A plausible slip: the bits of a byte counted from its least significant end.
get_x_bit_lsb_first(bs, bit) ==
    IF bit \div 8 < Len(bs)
    THEN Returned((bs[(bit \div 8) + 1] \div (2 ^ (bit % 8))) % 2)
    ELSE Aborted

\* A plausible slip: the "& 1" mask forgotten.
get_x_bit_unmasked(bs, bit) ==
    IF bit \div 8 < Len(bs)
    THEN Returned(bs[(bit \div 8) + 1] \div (2 ^ (7 - (bit % 8))))
    ELSE Aborted

\* fn get_x_bit: assert!(bit/8 < bytes.len()); (byte >> 7-bit%8) & 1
get_x_bit(bs, bit) ==
    IF bit \div 8 < Len(bs)
    THEN Returned((bs[(bit \div 8) + 1] \div (2 ^ (7 - (bit % 8)))) % 2)
    ELSE Aborted

\* a | b, bit by bit.
RECURSIVE BitOr(_, _)
BitOr(a, b) ==
    IF b = 0 THEN a
    ELSE IF a = 0 THEN b
    ELSE (IF a % 2 = 1 \/ b % 2 = 1 THEN 1 ELSE 0) + 2 * BitOr(a \div 2, b \div 2)

\* result |= b << sh: the bits of result below sh stay, those from sh up are
\* or-ed with b.
OrShifted(res, b, sh) ==
    BitOr(res \div (2 ^ sh), b) * (2 ^ sh) + (res % (2 ^ sh))

\* The for loop of get_bit_range from bit i on: i runs over start_bit..end_bit
\* and off = i - start_bit + 1 beside it, so length - off = end_bit - 1 - i.
\* (The test of next, a u32 and so never negative, only makes TLC evaluate
\* it before the next iteration.)
RECURSIVE bit_loop(_, _, _, _)
bit_loop(bs, i, end_bit, res) ==
    IF i >= end_bit
    THEN Returned(res)
    ELSE LET b == get_x_bit(bs, i)
             next == OrShifted(res, b.value, end_bit - 1 - i)
         IN IF b.kind = "abort" \/ next < 0
            THEN Aborted
            ELSE bit_loop(bs, i + 1, end_bit, next)

\* fn get_bit_range. With start_bit > end_bit the u32 subtraction overflows:
\* a debug build panics there, a release build wraps to 2^32 - (start - end),
\* which is at least 32 for the bit offsets drawn here, so assert!(length < 32)
\* fails; both builds abort.
get_bit_range(bs, start_bit, end_bit) ==
    IF start_bit > end_bit THEN Aborted
    ELSE IF ~(end_bit \div 8 <= Len(bs)) THEN Aborted
    ELSE IF ~(end_bit - start_bit < 32) THEN Aborted
    ELSE bit_loop(bs, start_bit, end_bit, 0)

(***************************************************************************)
(* src/src/error.rs                                                        *)
(***************************************************************************)
\* A plausible slip: the end of the data reported as an I/O error.
FromByteorderErrorAllIo(err) == "IoError"

\* impl From<byteorder::Error> for Error: UnexpectedEOF => NotSwf,
\* Io(error) => error.into(), which is IoError.
FromByteorderError(err) ==
    IF err = "UnexpectedEOF" THEN "NotSwf" ELSE "IoError"

\* impl From<lzma::Error> for Error: IO and ByteOrder are converted in turn,
\* every other variant is NotSwf.
FromLzmaError(err) ==
    CASE err = "IO" -> "IoError"
      [] err = "ByteOrderEOF" -> FromByteorderError("UnexpectedEOF")
      [] err = "ByteOrderIo" -> FromByteorderError("Io")
      [] OTHER -> "NotSwf"

\* What byteorder's read_* reports when the source ends before the bytes it
\* needs: a read of 0 bytes is UnexpectedEOF, a failed read is Io.
ShortRead(kind) == IF kind = "eof" THEN "UnexpectedEOF" ELSE "Io"

(***************************************************************************)
(* src/src/lib.rs: parse_rect                                              *)
(***************************************************************************)
\* let nbits = ((first_byte >> 3) & 0b0001_1111) as u32
nbits_of(first_byte) == (first_byte \div 8) % 32

\* A plausible slip: the five prefix bits left out of the count.
nbytes_without_prefix(nbits) == (nbits * 4) \div 8

\* A plausible slip: a whole further byte for the remainder.
nbytes_rounded_up(nbits) == (5 + nbits * 4 + 7) \div 8

\* let nbytes = (5 + nbits * 4) / 8
nbytes_of(nbits) == (5 + nbits * 4) \div 8

\* fn parse_rect on the stream s, of which `at` bytes are already consumed.
\* kind "short": a read_u8 found the stream at its end (try! returns);
\* kind "abort": an assertion of get_bit_range failed. used is the number of
\* bytes taken from the stream, buf the Vec the two ranges are taken from.
parse_rect(s, at) ==
    IF at >= Len(s)
    THEN [kind |-> "short", width |-> Unset, height |-> Unset,
          buf |-> <<>>, used |-> 0]
    ELSE LET first_byte == s[at + 1]
             nbits == nbits_of(first_byte)
             nbytes == nbytes_of(nbits)
         IN IF at + 1 + nbytes > Len(s)
            THEN [kind |-> "short", width |-> Unset, height |-> Unset,
                  buf |-> SubSeq(s, at + 1, Len(s)), used |-> Len(s) - at]
            ELSE LET buf == SubSeq(s, at + 1, at + 1 + nbytes)
                     w == get_bit_range(buf, 5 + nbits, 5 + nbits * 2)
                     h == get_bit_range(buf, 5 + nbits * 3, 5 + nbits * 4)
                 IN IF w.kind = "abort" \/ h.kind = "abort"
                    THEN [kind |-> "abort", width |-> Unset, height |-> Unset,
                          buf |-> buf, used |-> 1 + nbytes]
                    ELSE [kind |-> "ok", width |-> w.value, height |-> h.value,
                          buf |-> buf, used |-> 1 + nbytes]

(***************************************************************************)
(* The parts of the state a specification does not use keep these values.  *)
(***************************************************************************)
BitsIdle ==
    /\ bytes = <<>>
    /\ range_start = 0
    /\ range_end = 0
    /\ bit_out = [kind |-> "idle", value |-> 0]

RectIdle ==
    rect_out = [kind |-> "idle", width |-> Unset, height |-> Unset,
                buf |-> <<>>, used |-> 0]

RunStart ==
    /\ pc = "ReadSignature"
    /\ pos = 0
    /\ dpos = 0
    /\ inner = "None"
    /\ constructed = 0
    /\ sig = "None"
    /\ version = Unset
    /\ file_length = Unset
    /\ width = Unset
    /\ height = Unset
    /\ frame_rate_lower = Unset
    /\ frame_rate_upper = Unset
    /\ frame_count = Unset
    /\ result = "none"
    /\ headers = "None"
    /\ delivered = <<>>

(***************************************************************************)
(* SpecBits: get_bit_range called once on a drawn buffer and range.        *)
(***************************************************************************)
\* 0b0010_1100 and 0b0111_0010, the bytes of the doc example of get_bit_range.
BufferBytes == {44, 114}

\* Every buffer of the doc example's bytes, and the buffers with every bit set.
Buffers ==
    UNION {[1..n -> BufferBytes] \cup {[i \in 1..n |-> 255]} : n \in 0..MaxBufLen}

BitOffsets == 0..(8 * MaxBufLen + MaxOverrun)

InitBits ==
    /\ bytes \in Buffers
    /\ range_start \in BitOffsets
    /\ range_end \in BitOffsets
    /\ bit_out = [kind |-> "pending", value |-> 0]
    /\ RectIdle
    /\ file = <<>> /\ body = <<>> /\ endKind = "eof" /\ lzmaSetup = "Ok"
    /\ RunStart

\* bytes.get_bit_range(range_start..range_end) returns a value.
GetBitRangeReturns ==
    /\ bit_out.kind = "pending"
    /\ get_bit_range(bytes, range_start, range_end).kind = "value"
    /\ bit_out' = get_bit_range(bytes, range_start, range_end)
    /\ UNCHANGED <<bytes, range_start, range_end, rect_out, envVars, runVars>>

\* bytes.get_bit_range(range_start..range_end) fails an assertion.
GetBitRangeAborts ==
    /\ bit_out.kind = "pending"
    /\ get_bit_range(bytes, range_start, range_end).kind = "abort"
    /\ bit_out' = Aborted
    /\ UNCHANGED <<bytes, range_start, range_end, rect_out, envVars, runVars>>

NextBits == GetBitRangeReturns \/ GetBitRangeAborts

SpecBits == InitBits /\ [][NextBits]_vars

(***************************************************************************)
(* Claims about get_bit_range, checked under SpecBits.                     *)
(***************************************************************************)
\* Bit i of a buffer as the specification counts it: in byte i/8, at
\* position 7 - (i mod 8) from that byte's least significant bit.
BitAt(bs, i) == (bs[(i \div 8) + 1] \div (2 ^ (7 - (i % 8)))) % 2

\* The sum over i in [s, e) of BitAt(bs, i) * 2^(e-1-i).
RECURSIVE BitSum(_, _, _)
BitSum(bs, s, e) ==
    IF s >= e THEN 0 ELSE BitAt(bs, s) * (2 ^ (e - 1 - s)) + BitSum(bs, s + 1, e)

CeilDiv8(n) == (n + 7) \div 8

CallEnded == bit_out.kind \in {"value", "abort"}

\* v < 2^n for an n in 0..31, without forming 2^31.
FitsIn(v, n) == IF n = 0 THEN v = 0 ELSE v \div (2 ^ (n - 1)) < 2

\* C3: for every buffer and every range [start_bit, end_bit) with
\* end_bit - start_bit < 32 and ceil(end_bit/8) <= length(buffer), the call
\* returns the sum over i in [start_bit, end_bit) of bit(i) * 2^(end_bit-1-i),
\* bits counted most significant first; [0x2C, 0x72] with [2, 12) gives 711.
C3_BitRangeValue ==
    /\ (/\ CallEnded
        /\ range_start <= range_end
        /\ range_end - range_start < 32
        /\ CeilDiv8(range_end) <= Len(bytes))
       => bit_out = Returned(BitSum(bytes, range_start, range_end))
    /\ (CallEnded /\ bytes = <<44, 114>> /\ range_start = 2 /\ range_end = 12)
       => bit_out = Returned(711)

\* The doc example of get_bit_range has run.
C3_Witness ==
    /\ bytes = <<44, 114>> /\ range_start = 2 /\ range_end = 12
    /\ bit_out = Returned(711)

\* C4 as claimed: whenever end_bit - start_bit >= 32 or
\* ceil(end_bit/8) > length(buffer), the call ends in an assertion failure
\* and returns no value.
C4_PreconditionEnforced ==
    (/\ CallEnded
     /\ \/ range_end - range_start >= 32
        \/ CeilDiv8(range_end) > Len(bytes))
    => bit_out.kind = "abort"

\* C5 as claimed: with end_bit - start_bit < 32 and end_bit/8 <= length(buffer)
\* (integer division) the call returns a value below 2^(end_bit - start_bit).
C5_TotalUnderAssertedBounds ==
    (/\ CallEnded
     /\ range_start <= range_end
     /\ range_end - range_start < 32
     /\ range_end \div 8 <= Len(bytes))
    => /\ bit_out.kind = "value"
       /\ FitsIn(bit_out.value, range_end - range_start)

\* C5 amended: with start_bit <= end_bit, end_bit - start_bit < 32,
\* end_bit/8 <= length(buffer) and, for a non-empty range, the last bit inside
\* the buffer ((end_bit-1)/8 < length(buffer)), the call returns a value below
\* 2^(end_bit - start_bit).
C5_TotalWithinBuffer ==
    (/\ CallEnded
     /\ range_start <= range_end
     /\ range_end - range_start < 32
     /\ range_end \div 8 <= Len(bytes)
     /\ (range_start < range_end => (range_end - 1) \div 8 < Len(bytes)))
    => /\ bit_out.kind = "value"
       /\ FitsIn(bit_out.value, range_end - range_start)

\* A 31-bit range ending on the last bit of the buffer has been returned,
\* every bit of it set.
C5_Witness ==
    /\ bit_out.kind = "value"
    /\ range_end - range_start = 31
    /\ range_end = 8 * Len(bytes)
    /\ bit_out.value = 2147483647

(***************************************************************************)
(* SpecRect: parse_rect called once on a drawn stream.                     *)
(***************************************************************************)
\* The bytes that follow the first byte of a drawn stream are all alike.
FillBytes == {0, 165, 255}

\* One byte more than the longest record takes after its first byte.
MaxFurther == nbytes_of(31) + 1

RectStreams ==
    {<<>>} \cup
    {<<b0>> \o [i \in 1..k |-> f] :
        b0 \in 0..255, f \in FillBytes, k \in 0..MaxFurther}

InitRect ==
    /\ body \in RectStreams
    /\ rect_out = [kind |-> "pending", width |-> Unset, height |-> Unset,
                   buf |-> <<>>, used |-> 0]
    /\ BitsIdle
    /\ file = <<>> /\ endKind = "eof" /\ lzmaSetup = "Ok"
    /\ RunStart

\* parse_rect(&mut stream) on a stream of which nothing is consumed yet.
ParseRectCall ==
    /\ rect_out.kind = "pending"
    /\ rect_out' = parse_rect(body, 0)
    /\ UNCHANGED <<bitVars, envVars, runVars>>

NextRect == ParseRectCall

SpecRect == InitRect /\ [][NextRect]_vars

\* The bits of a stage-bounds record whose 5-bit prefix is n.
RecordBits(n) == 5 + 4 * n

\* C9: for every first byte b0, with nbits = (b0 >> 3) & 31, the buffer
\* parse_rect assembles (b0 and (5 + 4*nbits)/8 further bytes) holds at least
\* 5 + 4*nbits bits, so both get_bit_range calls meet their preconditions and
\* parse_rect never aborts; a stream that holds the whole record is parsed.
C9_RectBufferCoversRecord ==
    /\ rect_out.kind # "abort"
    /\ rect_out.kind = "ok" =>
          LET n == nbits_of(body[1])
          IN /\ n \in 0..31
             /\ Len(rect_out.buf) = 1 + (5 + 4 * n) \div 8
             /\ 8 * Len(rect_out.buf) >= RecordBits(n)
             /\ CeilDiv8(5 + 2 * n) <= Len(rect_out.buf)
             /\ CeilDiv8(5 + 4 * n) <= Len(rect_out.buf)
             /\ (5 + 2 * n) - (5 + n) < 32
             /\ (5 + 4 * n) - (5 + 3 * n) < 32
    /\ (/\ rect_out.kind \in {"ok", "short"}
        /\ Len(body) >= 1
        /\ Len(body) >= CeilDiv8(RecordBits(nbits_of(body[1]))))
       => rect_out.kind = "ok"

\* A record of the widest fields (nbits = 31, 129 bits) has been parsed.
C9_Witness ==
    /\ rect_out.kind = "ok"
    /\ nbits_of(body[1]) = 31
    /\ Len(rect_out.buf) = 17
    /\ rect_out.height = 2147483647

(***************************************************************************)
(* src/src/lib.rs and src/src/decoded_swf.rs: the pieces of read_from      *)
(***************************************************************************)
\* A plausible slip: the catch-all arm missing, every other byte taken for 'F'.
signature_of_lenient(b) ==
    CASE b = 67 -> "ZlibCompressed"
      [] b = 90 -> "LzmaCompressed"
      [] OTHER -> "Uncompressed"

\* match file.read_u8() as char: 'F', 'C', 'Z', or return Err(NotSwf).
signature_of(b) ==
    CASE b = 70 -> "Uncompressed"
      [] b = 67 -> "ZlibCompressed"
      [] b = 90 -> "LzmaCompressed"
      [] OTHER -> "Invalid"

\* match (read_u8, read_u8) { (0x57, 0x53) => {}, _ => return Err(NotSwf) }
magic_ok(b1, b2) == b1 = 87 /\ b2 = 83

\* A plausible slip: the bytes taken most significant first.
read_u32_big_endian(b) == 16777216 * b[1] + 65536 * b[2] + 256 * b[3] + b[4]

\* read_u32::<LittleEndian> of the four bytes b.
read_u32_le(b) == b[1] + 256 * b[2] + 65536 * b[3] + 16777216 * b[4]

\* read_u16::<LittleEndian> of the two bytes b.
read_u16_le(b) == b[1] + 256 * b[2]

\* A plausible slip: the zlib decoder chosen for every compressed signature.
decompress_zlib_for_lzma(s) ==
    CASE s = "Uncompressed" -> "Raw"
      [] s = "ZlibCompressed" -> "Zlib"
      [] s = "LzmaCompressed" -> "Zlib"

\* DecodedSwf::decompress: the variant of Inner chosen for a signature.
decompress(s) ==
    CASE s = "Uncompressed" -> "Raw"
      [] s = "ZlibCompressed" -> "Zlib"
      [] s = "LzmaCompressed" -> "Lzma"

\* A plausible slip: pixels taken for twips.
dimensions_unscaled(h) == <<h.width, h.height>>

\* SwfHeaders::dimensions_twips
dimensions_twips(h) == <<h.width, h.height>>

\* SwfHeaders::dimensions
dimensions(h) == <<h.width \div 20, h.height \div 20>>

\* A plausible slip: the fraction dropped without a word.
frame_rate_is_fractional_never(lower) == FALSE

\* if frame_rate_lower != 0 { panic!(...) }
frame_rate_is_fractional(lower) == lower # 0

\* The error a try!(read) returns when the source is at its end.
ShortReadError == FromByteorderError(ShortRead(endKind))

(***************************************************************************)
(* Spec: the files read_from is run on.                                    *)
(***************************************************************************)
\* 'F', 'C', 'Z' and a byte that is no signature ('X').
SigBytes == {70, 67, 90, 88}

\* The magic 'W' 'S', and two pairs that are not it.
Magics == {<<87, 83>>, <<87, 0>>, <<0, 83>>}

\* Version and file length: the end-to-end scenario's, and those of tests/245.swf
\* under a later version.
VersionLengths == {<<9, 100>>, <<13, 849486>>}

\* Stage-bounds records, by prefix (nbits) and the four fields:
\*   nbits 0, padding clear and set;  nbits 2: 0,3,0,2;
\*   nbits 6: 0,40,0,60 and 7,40,9,60;  nbits 15: 0,6000,0,6000 (tests/245.swf);
\*   nbits 31: every bit set.
RectSamples ==
    { <<0>>, <<7>>, <<17, 144>>, <<48, 20, 1, 224>>, <<48, 244, 19, 231>>,
      <<120, 0, 2, 238, 0, 0, 11, 184, 0>>, [i \in 1..17 |-> 255] }

\* Frame-rate bytes, low byte first: 0, 24, 30, and a fractional rate.
FrameRates == {<<0, 0>>, <<0, 24>>, <<0, 30>>, <<128, 24>>}

FrameCounts == {5, 300}

LE16(n) == <<n % 256, n \div 256>>
LE32(n) == <<n % 256, (n \div 256) % 256, (n \div 65536) % 256, n \div 16777216>>

\* The bytes that follow the frame count.
Trailing == [i \in 1..MaxTrailing |-> 170 + i]

Bodies ==
    {r \o f \o LE16(c) \o Trailing :
        r \in RectSamples, f \in FrameRates, c \in FrameCounts}

HeaderOf(s, m, vl) == <<s>> \o m \o <<vl[1]>> \o LE32(vl[2])

GoodHeader(h) == signature_of(h[1]) # "Invalid" /\ magic_ok(h[2], h[3])

AllHeaders ==
    {HeaderOf(s, m, vl) : s \in SigBytes, m \in Magics, vl \in VersionLengths}

\* A file is a header and, after a header that is accepted, any of the bodies;
\* after another header one body.
WholeFiles ==
    {[head |-> h, rest |-> b] : h \in {x \in AllHeaders : GoodHeader(x)}, b \in Bodies}
    \cup
    {[head |-> h, rest |-> <<48, 20, 1, 224, 0, 24, 5, 0>> \o Trailing] :
        h \in {x \in AllHeaders : ~GoodHeader(x)}}

\* What lzma::Reader::from may yield.
LzmaSetups == {"Ok", "IO", "ByteOrderEOF", "Format"}

\* Every file cut at every length: a file shorter than 8 bytes has no body.
Init ==
    /\ \E w \in WholeFiles :
          \E cut \in 0..(8 + Len(w.rest)) :
             /\ file = SubSeq(w.head, 1, IF cut < 8 THEN cut ELSE 8)
             /\ body = SubSeq(w.rest, 1, IF cut < 8 THEN 0 ELSE cut - 8)
    /\ endKind \in {"eof", "ioerr"}
    /\ lzmaSetup \in (IF Len(file) = 8 /\ file[1] = 90 THEN LzmaSetups ELSE {"Ok"})
    /\ BitsIdle
    /\ RectIdle
    /\ RunStart

(***************************************************************************)
(* Spec: SwfHeaders::read_from, one action per step, and the caller's      *)
(* reads on the DecodedSwf it returns.                                     *)
(***************************************************************************)
\* let sig = match try!(file.read_u8()) as char { ... }
ReadSignature ==
    /\ pc = "ReadSignature"
    /\ IF pos + 1 > Len(file)
       THEN /\ pos' = Len(file)
            /\ sig' = sig
            /\ pc' = "Failed"
            /\ result' = ShortReadError
       ELSE /\ pos' = pos + 1
            /\ IF signature_of(file[pos + 1]) = "Invalid"
               THEN sig' = sig /\ pc' = "Failed" /\ result' = "NotSwf"
               ELSE /\ sig' = signature_of(file[pos + 1])
                    /\ pc' = "ValidateMagic"
                    /\ result' = result
    /\ UNCHANGED <<bitVars, rect_out, envVars, dpos, inner, constructed,
                   version, file_length, width, height, frame_rate_lower,
                   frame_rate_upper, frame_count, headers, delivered>>

\* match (try!(file.read_u8()), try!(file.read_u8())) { ... }
ValidateMagic ==
    /\ pc = "ValidateMagic"
    /\ IF pos + 2 > Len(file)
       THEN /\ pos' = Len(file)
            /\ pc' = "Failed"
            /\ result' = ShortReadError
       ELSE /\ pos' = pos + 2
            /\ IF magic_ok(file[pos + 1], file[pos + 2])
               THEN pc' = "ReadVersion" /\ result' = result
               ELSE pc' = "Failed" /\ result' = "NotSwf"
    /\ UNCHANGED <<bitVars, rect_out, envVars, dpos, inner, constructed, sig,
                   version, file_length, width, height, frame_rate_lower,
                   frame_rate_upper, frame_count, headers, delivered>>

\* let version = try!(file.read_u8());
ReadVersion ==
    /\ pc = "ReadVersion"
    /\ IF pos + 1 > Len(file)
       THEN /\ pos' = Len(file)
            /\ version' = version
            /\ pc' = "Failed"
            /\ result' = ShortReadError
       ELSE /\ pos' = pos + 1
            /\ version' = file[pos + 1]
            /\ pc' = "ReadFileLength"
            /\ result' = result
    /\ UNCHANGED <<bitVars, rect_out, envVars, dpos, inner, constructed, sig,
                   file_length, width, height, frame_rate_lower,
                   frame_rate_upper, frame_count, headers, delivered>>

\* let file_length = try!(file.read_u32::<LittleEndian>());
ReadFileLength ==
    /\ pc = "ReadFileLength"
    /\ IF pos + 4 > Len(file)
       THEN /\ pos' = Len(file)
            /\ file_length' = file_length
            /\ pc' = "Failed"
            /\ result' = ShortReadError
       ELSE /\ pos' = pos + 4
            /\ file_length' = read_u32_le(SubSeq(file, pos + 1, pos + 4))
            /\ pc' = "SelectStream"
            /\ result' = result
    /\ UNCHANGED <<bitVars, rect_out, envVars, dpos, inner, constructed, sig,
                   version, width, height, frame_rate_lower,
                   frame_rate_upper, frame_count, headers, delivered>>

\* let mut decoded = try!(DecodedSwf::decompress(file, sig)); only
\* lzma::Reader::from can fail, and its error goes through From<lzma::Error>.
SelectStream ==
    /\ pc = "SelectStream"
    /\ constructed' = constructed + 1
    /\ IF decompress(sig) = "Lzma" /\ lzmaSetup # "Ok"
       THEN /\ inner' = inner
            /\ pc' = "Failed"
            /\ result' = FromLzmaError(lzmaSetup)
       ELSE /\ inner' = decompress(sig)
            /\ pc' = "ParseStageBounds"
            /\ result' = result
    /\ UNCHANGED <<bitVars, rect_out, envVars, pos, dpos, sig, version,
                   file_length, width, height, frame_rate_lower,
                   frame_rate_upper, frame_count, headers, delivered>>

\* let (width, height) = try!(parse_rect(&mut decoded));
ParseStageBounds ==
    /\ pc = "ParseStageBounds"
    /\ inner # "None"
    /\ LET r == parse_rect(body, dpos)
       IN /\ dpos' = dpos + r.used
          /\ width' = r.width
          /\ height' = r.height
          /\ pc' = CASE r.kind = "ok" -> "ReadFrameRate"
                     [] r.kind = "short" -> "Failed"
                     [] OTHER -> "Panicked"
          /\ result' = CASE r.kind = "ok" -> result
                         [] r.kind = "short" -> ShortReadError
                         [] OTHER -> "Panic"
    /\ UNCHANGED <<bitVars, rect_out, envVars, pos, inner, constructed, sig,
                   version, file_length, frame_rate_lower, frame_rate_upper,
                   frame_count, headers, delivered>>

\* frame_rate_lower, frame_rate_upper, then the panic on a fractional rate.
ReadFrameRate ==
    /\ pc = "ReadFrameRate"
    /\ inner # "None"
    /\ IF dpos + 1 > Len(body)
       THEN /\ dpos' = Len(body)
            /\ frame_rate_lower' = frame_rate_lower
            /\ frame_rate_upper' = frame_rate_upper
            /\ pc' = "Failed"
            /\ result' = ShortReadError
       ELSE IF dpos + 2 > Len(body)
       THEN /\ dpos' = Len(body)
            /\ frame_rate_lower' = body[dpos + 1]
            /\ frame_rate_upper' = frame_rate_upper
            /\ pc' = "Failed"
            /\ result' = ShortReadError
       ELSE /\ dpos' = dpos + 2
            /\ frame_rate_lower' = body[dpos + 1]
            /\ frame_rate_upper' = body[dpos + 2]
            /\ IF frame_rate_is_fractional(body[dpos + 1])
               THEN pc' = "Panicked" /\ result' = "Panic"
               ELSE pc' = "ReadFrameCount" /\ result' = result
    /\ UNCHANGED <<bitVars, rect_out, envVars, pos, inner, constructed, sig,
                   version, file_length, width, height, frame_count, headers,
                   delivered>>

\* let frame_count = try!(decoded.read_u16::<LittleEndian>()); and the
\* Ok((SwfHeaders { ... }, decoded)) that ends read_from.
ReadFrameCount ==
    /\ pc = "ReadFrameCount"
    /\ inner # "None"
    /\ IF dpos + 2 > Len(body)
       THEN /\ dpos' = Len(body)
            /\ frame_count' = frame_count
            /\ headers' = headers
            /\ pc' = "Failed"
            /\ result' = ShortReadError
       ELSE /\ dpos' = dpos + 2
            /\ frame_count' = read_u16_le(SubSeq(body, dpos + 1, dpos + 2))
            /\ headers' = [signature |-> sig, version |-> version,
                           file_length |-> file_length, width |-> width,
                           height |-> height, frame_rate |-> frame_rate_upper,
                           frame_count |-> frame_count']
            /\ pc' = "Done"
            /\ result' = "Ok"
    /\ UNCHANGED <<bitVars, rect_out, envVars, pos, inner, constructed, sig,
                   version, file_length, width, height, frame_rate_lower,
                   frame_rate_upper, delivered>>

\* impl Read for DecodedSwf: the caller reads from the returned stream with
\* a buffer of up to MaxReadLen bytes and is given k of the next bytes.
Read ==
    /\ pc = "Done"
    /\ inner # "None"
    /\ \E k \in 1..MaxReadLen :
          /\ dpos + k <= Len(body)
          /\ delivered' = delivered \o SubSeq(body, dpos + 1, dpos + k)
          /\ dpos' = dpos + k
    /\ UNCHANGED <<bitVars, rect_out, envVars, pc, pos, inner, constructed,
                   sig, version, file_length, width, height, frame_rate_lower,
                   frame_rate_upper, frame_count, result, headers>>

Next ==
    \/ ReadSignature
    \/ ValidateMagic
    \/ ReadVersion
    \/ ReadFileLength
    \/ SelectStream
    \/ ParseStageBounds
    \/ ReadFrameRate
    \/ ReadFrameCount
    \/ Read

Spec == Init /\ [][Next]_vars

(***************************************************************************)
(* Claims about read_from, checked under Spec.                             *)
(***************************************************************************)
ValidSigByte(b) == b \in {70, 67, 90}

\* The file starts with a byte that is no signature.
BadSig == Len(file) >= 1 /\ ~ValidSigByte(file[1])

\* The file starts with a signature followed by two bytes that are not 'W' 'S'.
BadMagic ==
    /\ Len(file) >= 3 /\ ValidSigByte(file[1])
    /\ ~(file[2] = 87 /\ file[3] = 83)

\* The file starts with a signature and the magic.
GoodPrefix ==
    /\ Len(file) >= 3 /\ ValidSigByte(file[1])
    /\ file[2] = 87 /\ file[3] = 83

\* Nothing of the steps after the magic has happened.
NoLaterStage ==
    /\ inner = "None" /\ constructed = 0 /\ dpos = 0
    /\ version = Unset /\ file_length = Unset /\ width = Unset
    /\ frame_rate_lower = Unset /\ headers = "None"
    /\ result \in {"none", "NotSwf"}

\* C1: after 'F', 'C' or 'Z' and the magic 0x57 0x53 parsing goes on to the
\* version; after any other first byte, or a signature followed by any other
\* pair, read_from returns NotSwf without reaching a later step: no decoder,
\* no stage bounds, no frame rate, no panic.
C1_SignatureAndMagic ==
    /\ [](BadSig => /\ pc \in {"ReadSignature", "Failed"}
                    /\ (pc = "Failed" => result = "NotSwf" /\ pos = 1)
                    /\ NoLaterStage)
    /\ [](BadMagic => /\ pc \in {"ReadSignature", "ValidateMagic", "Failed"}
                      /\ (pc = "Failed" => result = "NotSwf" /\ pos = 3)
                      /\ NoLaterStage)
    /\ [][(GoodPrefix /\ pc = "ReadSignature") =>
             (pc' = "ValidateMagic" /\ result' = "none")]_vars
    /\ [][(GoodPrefix /\ pc = "ValidateMagic") =>
             (pc' = "ReadVersion" /\ result' = "none" /\ pos' = 3)]_vars

\* A 'Z' file with a wrong magic has been refused.
C1_Witness ==
    /\ BadMagic /\ file[1] = 90
    /\ pc = "Failed" /\ result = "NotSwf" /\ pos = 3

\* The bytes a stage-bounds record starting with b0 takes.
RecordBytes(b0) == CeilDiv8(RecordBits(nbits_of(b0)))

\* The k-th (1..4) field of the record at the start of the body.
Field(k) ==
    LET n == nbits_of(body[1])
    IN BitSum(body, 5 + (k - 1) * n, 5 + k * n)

\* read_from has returned a header for an uncompressed file.
UncompressedOk == result = "Ok" /\ Len(file) = 8 /\ file[1] = 70

\* The header is the one the bytes of the file spell out.
HeaderMatchesInput ==
    LET rb == RecordBytes(body[1])
    IN /\ headers.signature = "Uncompressed"
       /\ headers.version = file[4]
       /\ headers.file_length =
             file[5] + 256 * file[6] + 65536 * file[7] + 16777216 * file[8]
       /\ dimensions_twips(headers) = <<Field(2), Field(4)>>
       /\ dimensions(headers) = <<Field(2) \div 20, Field(4) \div 20>>
       /\ body[rb + 1] = 0
       /\ headers.frame_rate = body[rb + 2]
       /\ headers.frame_count = body[rb + 3] + 256 * body[rb + 4]

\* The scenario of the specification but for the width of the fields:
\* version 9, file length 100, frame-rate bytes (0, 24), frame count 5.
ScenarioInput(n) ==
    /\ UncompressedOk
    /\ file[4] = 9 /\ SubSeq(file, 5, 8) = <<100, 0, 0, 0>>
    /\ nbits_of(body[1]) = n
    /\ LET rb == RecordBytes(body[1])
       IN SubSeq(body, rb + 1, rb + 4) = <<0, 24, 5, 0>>

ScenarioHeader ==
    /\ headers = [signature |-> "Uncompressed", version |-> 9,
                  file_length |-> 100, width |-> 40, height |-> 60,
                  frame_rate |-> 24, frame_count |-> 5]
    /\ dimensions_twips(headers) = <<40, 60>>
    /\ dimensions(headers) = <<2, 3>>

\* C2 as claimed: every uncompressed file is decoded to the header its bytes
\* spell out, and the scenario's file, whose record has nbits = 2, yields
\* dimensions_twips = (40, 60) and dimensions = (2, 3).
C2_EndToEndTwoBitRecord ==
    /\ UncompressedOk => HeaderMatchesInput
    /\ ScenarioInput(2) => ScenarioHeader

\* C2 amended: every uncompressed file is decoded to the header its bytes
\* spell out; the scenario's file with nbits = 6 (the narrowest fields that
\* hold 40 and 60) and second and fourth fields 40 and 60 yields
\* dimensions_twips = (40, 60) and dimensions = (2, 3).
C2_EndToEnd ==
    /\ UncompressedOk => HeaderMatchesInput
    /\ (ScenarioInput(6) /\ Field(2) = 40 /\ Field(4) = 60) => ScenarioHeader

\* The scenario with 6-bit fields has been decoded.
C2_Witness ==
    /\ ScenarioInput(6) /\ Field(2) = 40 /\ Field(4) = 60
    /\ ScenarioHeader

\* The decoder exists or can be built: no failure of lzma::Reader::from.
DecoderAvailable == Len(file) = 8 /\ (file[1] = 90 => lzmaSetup = "Ok")

\* The file has signature, magic, version, file length and a whole
\* stage-bounds record, and the byte after the record is not 0.
FractionalInput ==
    /\ GoodPrefix /\ DecoderAvailable
    /\ Len(body) >= 1
    /\ Len(body) >= RecordBytes(body[1]) + 1
    /\ body[RecordBytes(body[1]) + 1] # 0

Ended == result # "none"

\* C6 as claimed: every such input ends in the panic, whatever follows the
\* low byte, and if nothing follows it (the stream ending cleanly there).
C6_FractionalAlwaysAborts ==
    (FractionalInput /\ endKind = "eof" /\ Ended)
    => (result = "Panic" /\ headers = "None")

\* C6 amended: every such input in which the high frame-rate byte can be read
\* as well ends in the panic and never in a header or an error; when the
\* stream ends after the low byte, read_from returns the error of the short
\* read instead.
C6_FractionalAbortsOnceBothRead ==
    /\ (FractionalInput /\ Len(body) >= RecordBytes(body[1]) + 2 /\ Ended)
       => (result = "Panic" /\ headers = "None")
    /\ (FractionalInput /\ Len(body) = RecordBytes(body[1]) + 1 /\ Ended)
       => result = ShortReadError

\* A file that ends right after a fractional frame rate has panicked.
C6_Witness ==
    /\ FractionalInput
    /\ Len(body) = RecordBytes(body[1]) + 2
    /\ result = "Panic" /\ pc = "Panicked"
    /\ frame_rate_lower = 128 /\ frame_rate_upper = 24

\* The input ends before some step has the bytes it requires, and ends
\* cleanly: no read fails with an I/O error.
TruncatedInput ==
    /\ endKind = "eof" /\ lzmaSetup # "IO"
    /\ \/ Len(file) < 8
       \/ Len(body) < 1
       \/ Len(body) < RecordBytes(body[1]) + 4

\* C7 as claimed: every run on such an input returns NotSwf: no IoError, no
\* panic, no header.
C7_ShortReadIsNotSwf ==
    (TruncatedInput /\ Ended) => (result = "NotSwf" /\ headers = "None")

\* C7 amended: every run on such an input returns NotSwf, unless both
\* frame-rate bytes were obtained and the low one is not 0: then read_from
\* panics before it asks for the frame count.
C7_ShortReadIsNotSwfUnlessFractional ==
    /\ (/\ TruncatedInput /\ Ended
        /\ ~(FractionalInput /\ Len(body) >= RecordBytes(body[1]) + 2))
       => (result = "NotSwf" /\ headers = "None")
    /\ (/\ TruncatedInput /\ Ended
        /\ FractionalInput /\ Len(body) >= RecordBytes(body[1]) + 2)
       => result = "Panic"

\* A file that ends inside the frame count has been refused.
C7_Witness ==
    /\ TruncatedInput
    /\ Len(file) = 8 /\ Len(body) >= 1
    /\ Len(body) = RecordBytes(body[1]) + 3
    /\ pc = "Failed" /\ result = "NotSwf"
    /\ frame_rate_lower = 0 /\ frame_rate_upper # Unset

\* C8: after a successful read_from exactly the 8 header bytes were read raw
\* and exactly the record, 2 frame-rate and 2 frame-count bytes through the
\* decoder, and the caller's reads deliver the bytes that follow the frame
\* count, in order, none skipped and none twice.
C8_ContinuationPosition ==
    result = "Ok" =>
        LET used == RecordBytes(body[1]) + 4
        IN /\ pos = 8
           /\ dpos = used + Len(delivered)
           /\ delivered = SubSeq(body, used + 1, used + Len(delivered))

\* The caller has read the two bytes that follow the frame count.
C8_Witness ==
    /\ result = "Ok"
    /\ Len(delivered) >= 2
    /\ delivered[1] = 171 /\ delivered[2] = 172
    /\ nbits_of(body[1]) = 15

\* The strategy the signature byte b calls for.
StrategyFor(b) ==
    CASE b = 70 -> "Raw" [] b = 67 -> "Zlib" [] b = 90 -> "Lzma" [] OTHER -> "None"

\* C10: the decoder is constructed at most once, only after the 8 header
\* bytes were read raw and validated; it is Raw for 'F', Zlib for 'C', Lzma
\* for 'Z', agrees with the signature of the returned header, never changes,
\* and every later read goes through it: nothing is read through a decoder
\* before it exists and nothing is read raw after.
C10_StreamSelection ==
    /\ [](constructed <= 1)
    /\ [](inner = "None" => dpos = 0)
    /\ [](inner # "None" =>
            /\ constructed = 1 /\ pos = 8 /\ GoodPrefix
            /\ version # Unset /\ file_length # Unset
            /\ inner = StrategyFor(file[1])
            /\ inner = decompress(sig))
    /\ [](result = "Ok" => inner = decompress(headers.signature))
    /\ [][inner # "None" => (inner' = inner /\ pos' = pos)]_vars
    /\ [][dpos' # dpos => (inner # "None" /\ inner' = inner)]_vars

\* An LZMA file has been parsed and the caller has read on through the decoder.
C10_Witness ==
    /\ inner = "Lzma" /\ file[1] = 90
    /\ result = "Ok" /\ headers.signature = "LzmaCompressed"
    /\ Len(delivered) >= 1

=============================================================================
